---- MODULE Spec2Model ----
(***************************************************************************)
(* GPS tracking session of Access Nature: the TrackingController           *)
(* (core/tracking.js) driving the AppState store (core/storage.js), the    *)
(* TimerController (core/timer.js), the browser's position stream and the  *)
(* save / discard dialogs.                                                 *)
(*                                                                         *)
(* Units.  The code measures distance in kilometres (floats) and compares  *)
(* it with 0.003; the model measures in whole metres and compares with 3.  *)
(* Positions lie on one meridian, where the great-circle distance of two   *)
(* points is proportional to the difference of their latitudes, so a       *)
(* position is its offset in metres along the meridian.                    *)
(*                                                                         *)
(* Time.  Date.now() and the value TimerController.stop() returns are      *)
(* inputs of the handlers that read them.  An entry's timestamp, which no  *)
(* handler reads, is left out of the entry.                                *)
(*                                                                         *)
(* Asynchrony.  Every await of the controller is a point where another     *)
(* handler may run: an open dialog or a suspended saveRoute() is counted   *)
(* in prompts, confirms, savesLocal, savesCloud and resumed by an action   *)
(* of its own.                                                             *)
(*                                                                         *)
(* Reports.  The upvotes of one accessibility report                       *)
(* (AccessReportController.upvoteReport) are modelled beside the session;   *)
(* the two parts share no state.                                           *)
(***************************************************************************)
EXTENDS Integers, Sequences, FiniteSets, TLC

\* ---------------------------------------------------------------- bounds
MaxEntries == 2
MaxPending == 1
MaxDistance == 6
MaxCalls == 2

\* ------------------------------------------------------ program constants
AccuracyLimit == 100
MicroMovement == 3

\* --------------------------------------------------------- input domains
Positions == {0, 2, 5}
Accuracies == {AccuracyLimit, AccuracyLimit + 1}
Times == {5, 9}
ElapsedTimes == {0, 3}
ErrorCodes == {"PERMISSION_DENIED", "POSITION_UNAVAILABLE", "TIMEOUT"}
PromptResults == {"save", "discard", "cancel", "closed"}
CloudChoices == {"private", "public", "skip"}
NoCoords == 0 - 1
NoWatch == 0
Users == {"u1", "u2"}
NoUser == ""

VARIABLES
  isTracking,      \* TrackingController.isTracking
  isPaused,        \* TrackingController.isPaused
  watchId,         \* TrackingController.watchId (NoWatch = null)
  watches,         \* the browser's open position-stream subscriptions
  routeData,       \* AppState: the ordered entries
  totalDistance,   \* AppState: accumulated distance, metres
  elapsedTime,     \* AppState: elapsed time
  startTime,       \* AppState: wall-clock anchor
  stateTracking,   \* AppState flag isTracking
  statePaused,     \* AppState flag isPaused
  backup,          \* the recovery snapshot in persistent storage: <<>> or <<snapshot>>
  timerRunning,    \* TimerController: started and not stopped
  timerPaused,     \* TimerController: paused
  timerElapsed,    \* TimerController: the elapsed time it was started with or stopped at
  prompts,         \* save prompts awaiting the user's choice
  confirms,        \* "Confirm Discard" dialogs awaiting an answer
  savesLocal,      \* saveRoute() calls suspended in  await appState.saveSession
  savesCloud,      \* saveRoute() calls suspended in  await this.saveRouteToCloud
  saveTaken,       \* observation: entries read by the save that started last
  phase,           \* AccessNatureApp.initialize: "unsaved", "initial", then "ready"
  summary,         \* the route summary the restore dialog showed last
  errorShown,      \* AccessNatureApp.showError was called during startup
  geolocation,     \* navigator.geolocation exists in this browser; never changes
  upvotes,         \* the report document's upvotes counter
  upvotedBy,       \* the report document's upvotedBy array, as a set of user ids
  reading,         \* per user: upvoteReport calls suspended in  await getDoc
  writing,         \* per user: upvoteReport calls suspended in  await updateDoc
  lastOp,          \* observation: the handler that ran last, with its inputs
  observed         \* observation: the handlers lastOp records; never changes

controller == <<isTracking, isPaused, watchId, watches>>
session == <<routeData, totalDistance, elapsedTime>>
store == <<routeData, totalDistance, elapsedTime, startTime, stateTracking, statePaused>>
timer == <<timerRunning, timerPaused, timerElapsed>>
dialogs == <<prompts, confirms, savesLocal, savesCloud, saveTaken>>
startup == <<phase, summary, errorShown>>
report == <<upvotes, upvotedBy, reading, writing>>
vars == <<isTracking, isPaused, watchId, watches, routeData, totalDistance,
          elapsedTime, startTime, stateTracking, statePaused, backup,
          timerRunning, timerPaused, timerElapsed, prompts, confirms,
          savesLocal, savesCloud, saveTaken, phase, summary, errorShown,
          geolocation, upvotes, upvotedBy, reading, writing, lastOp, observed>>

\* ------------------------------------------------------------ observation
Op(name, choice, lat, value) ==
  [op |-> name, choice |-> choice, lat |-> lat, value |-> value]

NoOp == Op("", "", NoCoords, 0)

\* lastOp after `name` ran with these inputs. The handlers of the tracking
\* session and of the startup sequence do not touch the browser's
\* geolocation object or the report documents
Observed(name, choice, lat, value) ==
  /\ lastOp' = IF name \in observed THEN Op(name, choice, lat, value) ELSE NoOp
  /\ UNCHANGED <<observed, geolocation, report>>

\* what a button handler returned, where lastOp records the returns
Returned(value) == IF "returns" \in observed THEN value ELSE ""

\* saveTaken after a save read `count` entries; 0 where saves are not observed
Taken(count) == IF "saveSessionSettled" \in observed THEN count ELSE 0

\* lastOp after the tracking handler `name` ran with these inputs; the
\* tracking handlers leave the startup sequence alone
Noted(name, choice, lat, value) ==
  /\ Observed(name, choice, lat, value)
  /\ UNCHANGED startup

Pending == prompts + confirms + savesLocal + savesCloud

\* ------------------------------------------------------------ pure helpers
Abs(x) == IF x < 0 THEN 0 - x ELSE x

\* utils/calculations.js haversineDistance, on one meridian, in metres
haversineDistance(a, b) == Abs(a - b)

LocationIndexes(entries) ==
  {i \in 1 .. Len(entries) : entries[i].type = "location"}

Max(S) == CHOOSE m \in S : \A x \in S : x <= m

\* AppState.getLastCoords on a list of entries
LastCoordsOf(entries) ==
  IF LocationIndexes(entries) = {}
  THEN NoCoords
  ELSE entries[Max(LocationIndexes(entries))].coords

getLastCoords == LastCoordsOf(routeData)

\* navigator.geolocation.watchPosition: an id no open subscription has
NewWatchId == CHOOSE id \in 1 .. (Cardinality(watches) + 1) : id \notin watches

\* ------------------------------------------------ controller's decisions
ShouldIgnorePositionBad == ~isTracking
ShouldIgnorePosition == ~isTracking \/ isPaused

IsTooInaccurateBad(accuracy) == accuracy > AccuracyLimit + 1
IsTooInaccurate(accuracy) == accuracy > AccuracyLimit

\* if (lastCoords): there is a previous point to measure from
HasLastCoordsAlways(lastCoords) == TRUE
HasLastCoords(lastCoords) == lastCoords # NoCoords

IsMicroMovementBad(distance) == distance < MicroMovement - 1
IsMicroMovement(distance) == distance < MicroMovement

NewTotalBad(distance) == totalDistance
NewTotalLess(distance) == totalDistance - distance
NewTotal(distance) == totalDistance + distance

IsResuming == elapsedTime > 0 /\ Len(routeData) > 0

AdjustedStartTimeBad(currentTime, currentElapsed) == currentTime
AdjustedStartTime(currentTime, currentElapsed) == currentTime - currentElapsed

HasRouteDataBad == TRUE
HasRouteData == Len(routeData) # 0

\* ------------------------------------------------------------------- Init
NoSummary ==
  [shown |-> FALSE, hoursAgo |-> 0, minutesAgo |-> 0, distance |-> 0,
   locationPoints |-> 0, photos |-> 0, notes |-> 0, pointCount |-> 0]

\* the controllers as their constructors leave them
InitControllers ==
  /\ isTracking = FALSE
  /\ isPaused = FALSE
  /\ watchId = NoWatch
  /\ watches = {}
  /\ routeData = <<>>
  /\ totalDistance = 0
  /\ elapsedTime = 0
  /\ startTime = 0
  /\ stateTracking = FALSE
  /\ statePaused = FALSE
  /\ timerRunning = FALSE
  /\ timerPaused = FALSE
  /\ timerElapsed = 0
  /\ prompts = 0
  /\ confirms = 0
  /\ savesLocal = 0
  /\ savesCloud = 0
  /\ saveTaken = 0
  /\ summary = NoSummary
  /\ errorShown = FALSE
  /\ lastOp = NoOp

\* the report document as createReport() wrote it, with no upvote under way
InitReport ==
  /\ upvotes = 0
  /\ upvotedBy = {}
  /\ reading = [user \in Users |-> 0]
  /\ writing = [user \in Users |-> 0]

\* the application after a startup that found no recovery snapshot, in a
\* browser with geolocation
InitState ==
  /\ InitControllers
  /\ InitReport
  /\ backup = <<>>
  /\ phase = "ready"
  /\ geolocation = TRUE

\* ------------------------------------------------------------- the store
\* AppState.clearRouteData: the session part (entries, distance, elapsed time)
clearSession ==
  /\ routeData' = <<>>
  /\ totalDistance' = 0
  /\ elapsedTime' = 0

\* AppState.clearRouteData: session and flags; whether the stored snapshot is
\* deleted is the caller's decision, so it stays
clearRouteData ==
  /\ clearSession
  /\ stateTracking' = FALSE
  /\ statePaused' = FALSE
  /\ UNCHANGED <<startTime, backup>>

LocationEntry(lat, accuracy) ==
  [type |-> "location", coords |-> lat, accuracy |-> accuracy]

\* entries the MediaController and a route loaded from the cloud add
PhotoEntry(lat) == [type |-> "photo", coords |-> lat, accuracy |-> 0]
TextEntry(lat) == [type |-> "text", coords |-> lat, accuracy |-> 0]
OtherEntry(lat) == [type |-> "other", coords |-> lat, accuracy |-> 0]

\* AppState.addRoutePoint: the entry goes to the end of the list
addRoutePointFirst(entries, entry) == <<entry>> \o entries
addRoutePoint(entries, entry) == Append(entries, entry)

\* What the storage key of the recovery snapshot holds: a serialized snapshot,
\* text that does not parse, or text that parses to something else
Snapshot(entries, distance, elapsed, backupTime) ==
  [kind |-> "snapshot", routeData |-> entries, totalDistance |-> distance,
   elapsedTime |-> elapsed, backupTime |-> backupTime]

Malformed == [Snapshot(<<>>, 0, 0, 0) EXCEPT !.kind = "malformed"]
Scalar == [Snapshot(<<>>, 0, 0, 0) EXCEPT !.kind = "scalar"]

\* The recovery snapshot AppState writes when an entry is added: the session
\* with its capture time
BackupOf(entries, distance, currentTime) ==
  << Snapshot(entries, distance, elapsedTime, currentTime) >>

\* ---------------------------------------------------------------- start()
\* how start() ends: it returns false when already tracking, throws when the
\* browser has no geolocation, and returns true after starting
StartOutcomeAlways == "true"
StartOutcomeNoCheck == IF isTracking THEN "false" ELSE "true"
StartOutcome ==
  IF isTracking THEN "false" ELSE IF ~geolocation THEN "thrown" ELSE "true"

\* currentTime: Date.now()
start(currentTime) ==
  /\ Noted("start", Returned(StartOutcome), NoCoords, currentTime)
  /\ IF StartOutcome # "true"
     THEN UNCHANGED <<controller, store, backup, timer, dialogs>>
     ELSE /\ IF ~IsResuming
             THEN \* clearRouteData(); setStartTime(Date.now()); timer.start()
                  /\ clearSession
                  /\ startTime' = currentTime
                  /\ timerElapsed' = 0
             ELSE \* setStartTime(now - elapsed); setElapsedTime(elapsed); timer.start(elapsed)
                  /\ startTime' = AdjustedStartTime(currentTime, elapsedTime)
                  /\ elapsedTime' = elapsedTime
                  /\ UNCHANGED <<routeData, totalDistance>>
                  /\ timerElapsed' = elapsedTime
          /\ isTracking' = TRUE
          /\ isPaused' = FALSE
          /\ stateTracking' = TRUE
          /\ statePaused' = FALSE
          /\ watchId' = NewWatchId
          /\ watches' = watches \cup {NewWatchId}
          /\ timerRunning' = TRUE
          /\ timerPaused' = FALSE
          /\ UNCHANGED <<backup, dialogs>>

\* ----------------------------------------------------------------- stop()
\* stop() without the observation; promptForSave() runs up to its first
\* await inside stop(), so its empty-route test happens here.
\* finalElapsed: what timer.stop() returns
stopBody(finalElapsed) ==
  IF ~isTracking
  THEN UNCHANGED <<controller, store, backup, timer, dialogs>>
  ELSE /\ HasRouteData => Pending < MaxPending
       /\ finalElapsed >= timerElapsed
       /\ watches' = IF watchId # NoWatch THEN watches \ {watchId} ELSE watches
       /\ watchId' = NoWatch
       /\ elapsedTime' = finalElapsed
       /\ timerElapsed' = finalElapsed
       /\ timerRunning' = FALSE
       /\ timerPaused' = FALSE
       /\ isTracking' = FALSE
       /\ isPaused' = FALSE
       /\ stateTracking' = FALSE
       /\ statePaused' = FALSE
       /\ prompts' = IF HasRouteData THEN prompts + 1 ELSE prompts
       /\ UNCHANGED <<routeData, totalDistance, startTime, backup,
                      confirms, savesLocal, savesCloud, saveTaken>>

stop(finalElapsed) ==
  /\ Noted("stop", Returned(IF isTracking THEN "true" ELSE "false"), NoCoords, finalElapsed)
  /\ stopBody(finalElapsed)

\* ---------------------------------------------------------- togglePause()
togglePauseBad ==
  /\ Noted("togglePause", Returned(IF isTracking THEN "true" ELSE "false"), NoCoords, 0)
  /\ IF ~isTracking
     THEN UNCHANGED <<controller, store, backup, timer, dialogs>>
     ELSE /\ IF isPaused
             THEN /\ isPaused' = FALSE
                  /\ timerPaused' = FALSE
                  /\ UNCHANGED <<watchId, watches>>
             ELSE /\ isPaused' = TRUE
                  /\ timerPaused' = TRUE
                  /\ watches' = IF watchId # NoWatch THEN watches \ {watchId} ELSE watches
                  /\ watchId' = NoWatch
          /\ stateTracking' = isTracking
          /\ statePaused' = isPaused'
          /\ UNCHANGED <<isTracking, routeData, totalDistance, elapsedTime, startTime,
                         backup, timerRunning, timerElapsed, dialogs>>

togglePause ==
  /\ Noted("togglePause", Returned(IF isTracking THEN "true" ELSE "false"), NoCoords, 0)
  /\ IF ~isTracking
     THEN UNCHANGED <<controller, store, backup, timer, dialogs>>
     ELSE /\ IF isPaused
             THEN /\ isPaused' = FALSE
                  /\ timerPaused' = FALSE
                  /\ watchId' = NewWatchId
                  /\ watches' = watches \cup {NewWatchId}
             ELSE /\ isPaused' = TRUE
                  /\ timerPaused' = TRUE
                  /\ watches' = IF watchId # NoWatch THEN watches \ {watchId} ELSE watches
                  /\ watchId' = NoWatch
          /\ stateTracking' = isTracking
          /\ statePaused' = isPaused'
          /\ UNCHANGED <<isTracking, routeData, totalDistance, elapsedTime, startTime,
                         backup, timerRunning, timerElapsed, dialogs>>

\* ------------------------------------------------- handlePositionUpdate()
\* The browser may still deliver a fix of a subscription that was just
\* closed, so the handler can run in every state.
\* thrown: the map hook that throws while the fix is processed, "none" when
\* the renderer works.  Nothing catches the exception, so the handler ends at
\* the hook: updateMarkerDirection comes before the distance update,
\* addRouteSegment between the distance update and addRoutePoint,
\* updateMarkerPosition after both.
RendererHooks == {"none", "updateMarkerDirection", "addRouteSegment", "updateMarkerPosition"}

positionUpdate(lat, accuracy, currentTime, thrown) ==
  /\ Noted("handlePositionUpdate", thrown, lat, accuracy)
  /\ UNCHANGED <<controller, elapsedTime, startTime, stateTracking, statePaused,
                 timer, dialogs>>
  /\ IF ShouldIgnorePosition \/ IsTooInaccurate(accuracy)
     THEN UNCHANGED <<routeData, totalDistance, backup>>
     ELSE LET lastCoords == getLastCoords
              distance == haversineDistance(lastCoords, lat)
          IN  IF HasLastCoords(lastCoords) /\ IsMicroMovement(distance)
              THEN UNCHANGED <<routeData, totalDistance, backup>>
              ELSE IF HasLastCoords(lastCoords) /\ thrown = "updateMarkerDirection"
              THEN UNCHANGED <<routeData, totalDistance, backup>>
              ELSE IF HasLastCoords(lastCoords) /\ thrown = "addRouteSegment"
              THEN /\ NewTotal(distance) <= MaxDistance
                   /\ totalDistance' = NewTotal(distance)
                   /\ UNCHANGED <<routeData, backup>>
              ELSE /\ Len(routeData) < MaxEntries
                   /\ totalDistance' = IF HasLastCoords(lastCoords)
                                       THEN NewTotal(distance)
                                       ELSE totalDistance
                   /\ routeData' = addRoutePoint(routeData, LocationEntry(lat, accuracy))
                   /\ backup' = BackupOf(routeData', totalDistance', currentTime)

\* the handler with a renderer that works
handlePositionUpdate(lat, accuracy, currentTime) ==
  positionUpdate(lat, accuracy, currentTime, "none")

\* -------------------------------------------------- handlePositionError()
\* the error after which the handler calls stop()
IsFatalNever(code) == FALSE
IsFatalAlways(code) == TRUE
IsFatal(code) == code = "PERMISSION_DENIED"

handlePositionError(code, finalElapsed) ==
  /\ Noted("handlePositionError", code, NoCoords, finalElapsed)
  /\ IF IsFatal(code)
     THEN stopBody(finalElapsed)
     ELSE UNCHANGED <<controller, store, backup, timer, dialogs>>

\* --------------------------------------------------------------- cleanup()
\* finalElapsed: the elapsed time the timer stops at; cleanup() does not read
\* what timer.stop() returns and writes nothing to the Store
cleanupLeaks(finalElapsed) ==
  /\ Noted("cleanup", "", NoCoords, 0)
  /\ finalElapsed >= timerElapsed
  /\ watchId' = NoWatch
  /\ timerElapsed' = IF timerRunning THEN finalElapsed ELSE timerElapsed
  /\ timerRunning' = FALSE
  /\ timerPaused' = FALSE
  /\ isTracking' = FALSE
  /\ isPaused' = FALSE
  /\ UNCHANGED <<watches, store, backup, dialogs>>

cleanupStaysPaused(finalElapsed) ==
  /\ Noted("cleanup", "", NoCoords, 0)
  /\ finalElapsed >= timerElapsed
  /\ watches' = IF watchId # NoWatch THEN watches \ {watchId} ELSE watches
  /\ watchId' = NoWatch
  /\ timerElapsed' = IF timerRunning THEN finalElapsed ELSE timerElapsed
  /\ timerRunning' = FALSE
  /\ timerPaused' = FALSE
  /\ isTracking' = FALSE
  /\ UNCHANGED <<isPaused, store, backup, dialogs>>

cleanup(finalElapsed) ==
  /\ Noted("cleanup", "", NoCoords, 0)
  /\ finalElapsed >= timerElapsed
  /\ watches' = IF watchId # NoWatch THEN watches \ {watchId} ELSE watches
  /\ watchId' = NoWatch
  /\ timerElapsed' = IF timerRunning THEN finalElapsed ELSE timerElapsed
  /\ timerRunning' = FALSE
  /\ timerPaused' = FALSE
  /\ isTracking' = FALSE
  /\ isPaused' = FALSE
  /\ UNCHANGED <<store, backup, dialogs>>

\* ------------------------------------------------------- discardRoute()
discardRoute == clearRouteData

\* ------------------------------------------- promptForSave(), after await
\* result: the button of the save prompt, "closed" when it was dismissed
\* named:  the user ends saveRoute()'s name dialogs with a route name
promptForSaveResultBad(result, named) ==
  /\ prompts > 0
  /\ prompts' = prompts - 1
  /\ Noted("promptForSaveResult", result, NoCoords, IF named THEN 1 ELSE 0)
  /\ savesLocal' = IF result = "save" /\ named THEN savesLocal + 1 ELSE savesLocal
  /\ confirms' = IF result = "discard" THEN confirms + 1 ELSE confirms
  /\ saveTaken' = IF result = "save" /\ named THEN Taken(Len(routeData)) ELSE saveTaken
  /\ IF result = "cancel" THEN discardRoute ELSE UNCHANGED <<store, backup>>
  /\ UNCHANGED <<controller, timer, savesCloud>>

promptForSaveResult(result, named) ==
  /\ prompts > 0
  /\ prompts' = prompts - 1
  /\ Noted("promptForSaveResult", result, NoCoords, IF named THEN 1 ELSE 0)
  /\ savesLocal' = IF result = "save" /\ named THEN savesLocal + 1 ELSE savesLocal
  /\ confirms' = IF result = "discard" THEN confirms + 1 ELSE confirms
  /\ saveTaken' = IF result = "save" /\ named THEN Taken(Len(routeData)) ELSE saveTaken
  /\ UNCHANGED <<controller, store, backup, timer, savesCloud>>

\* the second dialog: discardRoute() runs only when it was confirmed
ConfirmOutcomeBad(confirmDiscard) == TRUE
ConfirmOutcome(confirmDiscard) == confirmDiscard

confirmDiscardResult(confirmDiscard) ==
  /\ confirms > 0
  /\ confirms' = confirms - 1
  /\ Noted("confirmDiscardResult", IF confirmDiscard THEN "confirm" ELSE "cancel",
           NoCoords, 0)
  /\ IF ConfirmOutcome(confirmDiscard) THEN discardRoute ELSE UNCHANGED <<store, backup>>
  /\ UNCHANGED <<controller, timer, prompts, savesLocal, savesCloud, saveTaken>>

\* ------------------------------------------------ saveRoute(), after await
\* "Clear route data after saving" is reached when saveSession resolved; a
\* rejection goes to the outer catch
ReachesClearAfterLocal(ok) == ok

\* a failure of the cloud save is caught inside the try, and saveRoute() goes
\* on to "Clear route data after saving"
ReachesClearAfterCloud(ok) == TRUE

StartsCloudSave(authenticated, cloudChoice) == authenticated /\ cloudChoice # "skip"

\* saveTaken once a save has ended and `inFlight` saves remain
StillTaken(inFlight) == IF inFlight = 0 THEN 0 ELSE saveTaken

\* ok: appState.saveSession resolved; authenticated: authController.isAuthenticated();
\* cloudChoice: what askCloudSaveOptions returns
saveSessionSettled(ok, authenticated, cloudChoice) ==
  /\ savesLocal > 0
  /\ savesLocal' = savesLocal - 1
  /\ Noted("saveSessionSettled",
           IF ~ok THEN "failed" ELSE IF authenticated THEN cloudChoice ELSE "anonymous",
           NoCoords, 0)
  /\ UNCHANGED <<controller, timer, prompts, confirms>>
  /\ IF ~ReachesClearAfterLocal(ok)
     THEN /\ saveTaken' = StillTaken(savesLocal' + savesCloud)
          /\ UNCHANGED <<store, backup, savesCloud>>
     ELSE IF ok /\ StartsCloudSave(authenticated, cloudChoice)
          THEN \* the cloud save reads the route data again
               /\ savesCloud' = savesCloud + 1
               /\ saveTaken' = Taken(Len(routeData))
               /\ UNCHANGED <<store, backup>>
          ELSE /\ clearRouteData
               /\ saveTaken' = StillTaken(savesLocal' + savesCloud)
               /\ UNCHANGED savesCloud

\* ok: saveRouteToCloud resolved
saveRouteToCloudSettled(ok) ==
  /\ savesCloud > 0
  /\ savesCloud' = savesCloud - 1
  /\ Noted("saveRouteToCloudSettled", IF ok THEN "saved" ELSE "failed", NoCoords, 0)
  /\ saveTaken' = StillTaken(savesLocal + savesCloud')
  /\ UNCHANGED <<controller, timer, prompts, confirms, savesLocal>>
  /\ IF ReachesClearAfterCloud(ok) THEN clearRouteData ELSE UNCHANGED <<store, backup>>

\* ------------------------------------------------------------------- Next
Next ==
  \/ \E currentTime \in Times : start(currentTime)
  \/ \E finalElapsed \in ElapsedTimes : stop(finalElapsed)
  \/ togglePause
  \/ \E lat \in Positions, accuracy \in Accuracies, currentTime \in Times :
        handlePositionUpdate(lat, accuracy, currentTime)
  \/ \E code \in ErrorCodes, finalElapsed \in ElapsedTimes :
        handlePositionError(code, finalElapsed)
  \/ \E result \in PromptResults, named \in BOOLEAN : promptForSaveResult(result, named)
  \/ \E confirmDiscard \in BOOLEAN : confirmDiscardResult(confirmDiscard)
  \/ \E ok \in BOOLEAN, authenticated \in BOOLEAN, cloudChoice \in CloudChoices :
        saveSessionSettled(ok, authenticated, cloudChoice)
  \/ \E ok \in BOOLEAN : saveRouteToCloudSettled(ok)

\* ---------------------------------------------------------- specifications
\* The specifications differ in the handlers whose runs lastOp records.
Init == InitState /\ observed = {}
InitFix == InitState /\ observed = {"handlePositionUpdate"}
InitButtons == InitState /\ observed = {"start", "stop", "togglePause", "handlePositionError"}
InitDialogs ==
  InitState /\ observed = {"promptForSaveResult", "confirmDiscardResult",
                           "saveSessionSettled", "saveRouteToCloudSettled"}

Spec == Init /\ [][Next]_vars
SpecFix == InitFix /\ [][Next]_vars
SpecButtons == InitButtons /\ [][Next]_vars
SpecDialogs == InitDialogs /\ [][Next]_vars

\* the handlers, with a renderer whose hooks may throw
NextRenderer ==
  \/ \E lat \in Positions, accuracy \in Accuracies, currentTime \in Times,
        thrown \in RendererHooks \ {"none"} :
        positionUpdate(lat, accuracy, currentTime, thrown)
  \/ Next

SpecRenderer == InitFix /\ [][NextRenderer]_vars

\* the handlers and cleanup(), which the page may call in any state
NextCleanup ==
  \/ \E finalElapsed \in ElapsedTimes : cleanup(finalElapsed)
  \/ Next

SpecCleanup == Init /\ [][NextCleanup]_vars

\* the same, recording the controller's operations
InitOperations ==
  InitState /\ observed = {"start", "stop", "togglePause", "handlePositionError", "cleanup"}

SpecOperations == InitOperations /\ [][NextCleanup]_vars

\* ------------------------------------------------ AccessNatureApp startup
Hour == 1000 * 60 * 60
Minute == 1000 * 60

\* routes a previous run may have left in its snapshot, with their distance
StartupRoutes ==
  { [entries |-> <<>>, distance |-> 0],
    [entries |-> <<LocationEntry(0, AccuracyLimit)>>, distance |-> 0],
    [entries |-> <<LocationEntry(0, AccuracyLimit), PhotoEntry(0),
                   LocationEntry(5, AccuracyLimit)>>, distance |-> 5],
    [entries |-> <<LocationEntry(0, AccuracyLimit), LocationEntry(20, AccuracyLimit)>>,
     distance |-> 20],
    [entries |-> <<LocationEntry(0, AccuracyLimit), TextEntry(0), OtherEntry(0),
                   LocationEntry(1234, AccuracyLimit)>>, distance |-> 1234] }

\* Date.now() when the restore dialog is built
RestoreTime == 3 * Hour
RestoreTimes == {RestoreTime}

\* capture times of a snapshot: none recorded, or this long before the restore
BackupAges == {0, 59999, 59 * Minute, Hour, 2 * Hour + 5 * Minute + 1}
BackupTimes == {0} \cup {RestoreTime - age : age \in BackupAges}

\* what the storage key can hold when the application starts
SummaryBackups ==
  {<<>>, <<Malformed>>, <<Scalar>>}
  \cup { <<Snapshot(r.entries, r.distance, elapsed, backupTime)>> :
           r \in StartupRoutes, elapsed \in ElapsedTimes, backupTime \in BackupTimes }

\* no snapshot, an unusable one, or the snapshot of a session of three
\* entries and 5 m, written after the session was stopped once (elapsed time
\* 3) or before its first stop (elapsed time still 0)
StartupBackups ==
  { <<>>, <<Malformed>>, <<Scalar>> }
  \cup { <<Snapshot(<<LocationEntry(0, AccuracyLimit), PhotoEntry(0),
                       LocationEntry(5, AccuracyLimit)>>, 5, elapsed, RestoreTime - Hour)>> :
            elapsed \in ElapsedTimes }

\* AppState.checkForUnsavedRoute: the stored snapshot, or none when the key
\* is absent, does not parse or holds a session without entries
checkForUnsavedRoute ==
  IF backup = <<>> THEN <<>>
  ELSE IF backup[1].kind = "malformed" THEN <<>>
  ELSE IF backup[1].kind = "snapshot" /\ backup[1].routeData = <<>> THEN <<>>
  ELSE backup

\* backupData.backupTime || Date.now()
BackupTimeOf(backupData, currentTime) ==
  IF backupData.backupTime # 0 THEN backupData.backupTime ELSE currentTime

HoursAgo(backupAge) == backupAge \div Hour

MinutesAgoBad(backupAge) == backupAge \div Minute
MinutesAgo(backupAge) == (backupAge % Hour) \div Minute

\* (km).toFixed(2) of a distance in metres: the number of hundredths of a
\* kilometre (tens of metres) shown, rounded to the nearest
ToFixed2(metres) == (metres + 5) \div 10

CountType(entries, type) ==
  Cardinality({i \in 1 .. Len(entries) : entries[i].type = type})

\* the figures of the restore dialog's message
RestoreSummary(backupData, currentTime) ==
  LET backupAge == currentTime - BackupTimeOf(backupData, currentTime)
  IN  [shown |-> TRUE,
       hoursAgo |-> HoursAgo(backupAge),
       minutesAgo |-> MinutesAgo(backupAge),
       distance |-> ToFixed2(backupData.totalDistance),
       locationPoints |-> CountType(backupData.routeData, "location"),
       photos |-> CountType(backupData.routeData, "photo"),
       notes |-> CountType(backupData.routeData, "text"),
       pointCount |-> Len(backupData.routeData)]

\* AppState.restoreFromBackup, succeeding: the Store is repopulated from the
\* snapshot and the start time recomputed from its elapsed time
restoreFromBackup(backupData, currentTime) ==
  /\ routeData' = backupData.routeData
  /\ totalDistance' = backupData.totalDistance
  /\ elapsedTime' = backupData.elapsedTime
  /\ startTime' = currentTime - backupData.elapsedTime
  /\ UNCHANGED <<stateTracking, statePaused>>

\* The path showRestoreDialog takes.
\* shouldRestore, confirmDiscard: the answers to its two confirm() dialogs
\* restoreOk: restoreFromBackup returns true
RestoreOutcome(backupData, shouldRestore, confirmDiscard, restoreOk) ==
  IF backupData = <<>> THEN "none"
  ELSE IF backupData[1].kind # "snapshot" THEN "invalid"
  ELSE IF shouldRestore THEN (IF restoreOk THEN "restored" ELSE "restoreFailed")
  ELSE IF confirmDiscard THEN "discarded"
  ELSE IF restoreOk THEN "restoredAfterDecline"
  ELSE "restoreFailedAfterDecline"

\* showRestoreDialog resolves true
RestoreSucceeded(outcome) == outcome \in {"restored", "restoredAfterDecline"}

\* showRestoreDialog calls clearRouteBackup()
ClearsBackup(outcome) == outcome \in {"restoreFailed", "discarded"}

\* showRestoreDialog calls showError()
ShowsError(outcome) == outcome \in {"restoreFailed", "restoreFailedAfterDecline"}

\* how many confirm() dialogs showRestoreDialog opens
DialogsShown(outcome) ==
  IF outcome \in {"none", "invalid"} THEN 0
  ELSE IF outcome \in {"restored", "restoreFailed"} THEN 1
  ELSE 2

\* handleUnsavedRoute(), with showRestoreDialog(), which runs to its end
\* within it because confirm() blocks: what it does to the Store, the stored
\* snapshot, the timer's elapsed time and the screen
restoreSteps(currentTime, shouldRestore, confirmDiscard, restoreOk) ==
  LET backupData == checkForUnsavedRoute
      outcome == RestoreOutcome(backupData, shouldRestore, confirmDiscard, restoreOk)
  IN  /\ phase = "unsaved"
      /\ phase' = "initial"
      /\ Observed("handleUnsavedRoute", outcome, NoCoords, 0)
      /\ summary' = IF DialogsShown(outcome) > 0
                    THEN RestoreSummary(backupData[1], currentTime)
                    ELSE summary
      /\ errorShown' = (errorShown \/ ShowsError(outcome))
      /\ IF RestoreSucceeded(outcome)
         THEN /\ restoreFromBackup(backupData[1], currentTime)
              /\ timerElapsed' = IF backupData[1].elapsedTime > 0
                                 THEN backupData[1].elapsedTime
                                 ELSE timerElapsed
         ELSE UNCHANGED <<store, timerElapsed>>
      /\ backup' = IF ClearsBackup(outcome) THEN <<>> ELSE backup
      /\ UNCHANGED dialogs

handleUnsavedRouteBad(currentTime, shouldRestore, confirmDiscard, restoreOk) ==
  /\ restoreSteps(currentTime, shouldRestore, confirmDiscard, restoreOk)
  /\ IF routeData' # <<>> /\ ~isTracking
     THEN /\ isTracking' = TRUE
          /\ watchId' = NewWatchId
          /\ watches' = watches \cup {NewWatchId}
          /\ timerRunning' = TRUE
          /\ UNCHANGED <<isPaused, timerPaused>>
     ELSE UNCHANGED <<controller, timerRunning, timerPaused>>

\* The tracking controller and the running timer are not touched.
handleUnsavedRoute(currentTime, shouldRestore, confirmDiscard, restoreOk) ==
  /\ restoreSteps(currentTime, shouldRestore, confirmDiscard, restoreOk)
  /\ UNCHANGED <<controller, timerRunning, timerPaused>>

\* the answer that makes loadInitialState remove the stored snapshot
RemovesBackup(shouldRestore) == ~shouldRestore

\* loadInitialState(): shouldRestore is the answer to its confirm() dialog,
\* which is shown whenever the storage key holds anything
loadInitialState(shouldRestore) ==
  /\ phase = "initial"
  /\ phase' = "ready"
  /\ Observed("loadInitialState",
              IF backup = <<>> THEN "none" ELSE IF shouldRestore THEN "restore" ELSE "decline",
              NoCoords, 0)
  /\ backup' = IF backup # <<>> /\ RemovesBackup(shouldRestore) THEN <<>> ELSE backup
  /\ UNCHANGED <<controller, store, timer, dialogs, summary, errorShown>>

\* the startup sequence and the handlers. The button listeners are set up
\* before the sequence, so the buttons can be pressed while it is under way;
\* position fixes, errors and dialog answers are taken after it
NextStartup ==
  \/ \E currentTime \in RestoreTimes, shouldRestore \in BOOLEAN,
        confirmDiscard \in BOOLEAN, restoreOk \in BOOLEAN :
        handleUnsavedRoute(currentTime, shouldRestore, confirmDiscard, restoreOk)
  \/ \E shouldRestore \in BOOLEAN : loadInitialState(shouldRestore)
  \/ (phase # "ready" /\ \E currentTime \in Times : start(currentTime))
  \/ (phase # "ready" /\ \E finalElapsed \in ElapsedTimes : stop(finalElapsed))
  \/ (phase # "ready" /\ togglePause)
  \/ (phase = "ready" /\ Next)

InitStartup ==
  /\ InitControllers
  /\ InitReport
  /\ geolocation \in BOOLEAN
  /\ backup \in StartupBackups
  /\ phase = "unsaved"
  /\ observed = {"handleUnsavedRoute", "loadInitialState",
                 "start", "stop", "togglePause", "returns"}

SpecStartup == InitStartup /\ [][NextStartup]_vars

\* the startup sequence alone, on every stored snapshot
NextSummary ==
  \/ \E currentTime \in RestoreTimes, shouldRestore \in BOOLEAN,
        confirmDiscard \in BOOLEAN, restoreOk \in BOOLEAN :
        handleUnsavedRoute(currentTime, shouldRestore, confirmDiscard, restoreOk)
  \/ \E shouldRestore \in BOOLEAN : loadInitialState(shouldRestore)

InitSummary ==
  /\ InitControllers
  /\ InitReport
  /\ geolocation = TRUE
  /\ backup \in SummaryBackups
  /\ phase = "unsaved"
  /\ observed = {"handleUnsavedRoute", "loadInitialState"}

SpecSummary == InitSummary /\ [][NextSummary]_vars

\* ------------------------------------- AccessReportController.upvoteReport
\* One report document.  A call of upvoteReport() is suspended twice, in
\* await getDoc and in await updateDoc; the database reads the document when
\* the first settles and applies increment(1) and arrayUnion(uid) in one
\* write when the second settles.
tracking == <<controller, store, backup, timer, dialogs, startup, geolocation,
              lastOp, observed>>

\* upvotedBy.includes(user.uid), on the document the call read
AlreadyUpvoted(user) == user \in upvotedBy

\* user: auth.currentUser, NoUser when nobody is signed in
upvoteReport(user) ==
  /\ IF user = NoUser
     THEN UNCHANGED reading
     ELSE /\ reading[user] + writing[user] < MaxCalls
          /\ reading' = [reading EXCEPT ![user] = @ + 1]
  /\ UNCHANGED <<upvotes, upvotedBy, writing, tracking>>

\* ok: getDoc resolved with a document that exists
getDocSettled(user, ok) ==
  /\ reading[user] > 0
  /\ reading' = [reading EXCEPT ![user] = @ - 1]
  /\ writing' = IF ok /\ ~AlreadyUpvoted(user)
                THEN [writing EXCEPT ![user] = @ + 1]
                ELSE writing
  /\ UNCHANGED <<upvotes, upvotedBy, tracking>>

\* ok: updateDoc resolved, the write was applied
updateDocSettled(user, ok) ==
  /\ writing[user] > 0
  /\ writing' = [writing EXCEPT ![user] = @ - 1]
  /\ upvotes' = IF ok THEN upvotes + 1 ELSE upvotes
  /\ upvotedBy' = IF ok THEN upvotedBy \cup {user} ELSE upvotedBy
  /\ UNCHANGED <<reading, tracking>>

NextUpvote ==
  \/ \E user \in Users \cup {NoUser} : upvoteReport(user)
  \/ \E user \in Users, ok \in BOOLEAN : getDocSettled(user, ok)
  \/ \E user \in Users, ok \in BOOLEAN : updateDocSettled(user, ok)

SpecUpvote == Init /\ [][NextUpvote]_vars

\* ================================================================= claims
IsFix(op) == op.op = "handlePositionUpdate"

Recording == isTracking /\ ~isPaused

\* the fix lastOp records lies this far from the last accepted coordinates
LastFixDistance == haversineDistance(getLastCoords, lastOp.lat)

\* Sum of the distances between consecutive entries
RECURSIVE SumDist(_)
SumDist(entries) ==
  IF Len(entries) < 2
  THEN 0
  ELSE SumDist(SubSeq(entries, 1, Len(entries) - 1))
       + haversineDistance(entries[Len(entries) - 1].coords, entries[Len(entries)].coords)

\* C1: while Recording, a fix less than 3 m from the last accepted coordinates
\* changes nothing: totalDistance is unchanged, no entry is appended, and the
\* last coordinates are still those of the previously accepted fix.
C1_JitterSuppressed ==
  [][ ( /\ IsFix(lastOp')
        /\ Recording
        /\ getLastCoords # NoCoords
        /\ haversineDistance(getLastCoords, lastOp'.lat) < MicroMovement )
      => ( /\ UNCHANGED <<routeData, totalDistance>>
           /\ getLastCoords' = getLastCoords ) ]_vars

\* a fix of good accuracy arrived while Recording, 1 or 2 m from the last
\* accepted coordinates
C1_Witness ==
  /\ IsFix(lastOp)
  /\ Recording
  /\ lastOp.value <= AccuracyLimit
  /\ getLastCoords # NoCoords
  /\ LastFixDistance \in 1 .. (MicroMovement - 1)

\* C2: a fix whose accuracy is greater than 100 m is dropped in every state,
\* whatever its distance from the last fix and also when there is no last fix:
\* entries, totalDistance and last coordinates are unchanged.  A fix with
\* accuracy exactly 100 m passes this filter: while Recording, with no last fix
\* or at least 3 m from it, it is appended.
C2_AccuracyFilter ==
  [][ IsFix(lastOp') =>
        /\ lastOp'.value > AccuracyLimit
             => ( /\ UNCHANGED <<routeData, totalDistance>>
                  /\ getLastCoords' = getLastCoords )
        /\ ( /\ lastOp'.value = AccuracyLimit
             /\ Recording
             /\ \/ getLastCoords = NoCoords
                \/ haversineDistance(getLastCoords, lastOp'.lat) >= MicroMovement )
             => routeData' = Append(routeData, LocationEntry(lastOp'.lat, AccuracyLimit)) ]_vars

\* a fix with accuracy 101 arrived while Recording, 3 m or more from the last
\* accepted coordinates, and is not among the entries
C2_Witness ==
  /\ IsFix(lastOp)
  /\ Recording
  /\ lastOp.value > AccuracyLimit
  /\ getLastCoords # NoCoords
  /\ LastFixDistance >= MicroMovement

C4_OnlyWhenRecording ==
  [][ (IsFix(lastOp') /\ (~isTracking \/ isPaused))
      => ( /\ UNCHANGED <<routeData, totalDistance>>
           /\ getLastCoords' = getLastCoords ) ]_vars

\* after stop(), with the save prompt open, a fix of good accuracy arrived 3 m
\* or more from the last accepted coordinates
C4_Witness ==
  /\ IsFix(lastOp)
  /\ ~isTracking
  /\ prompts > 0
  /\ lastOp.value <= AccuracyLimit
  /\ getLastCoords # NoCoords
  /\ LastFixDistance >= MicroMovement

\* C5: answering the save prompt with Cancel, or dismissing it, leaves the
\* Store's entries, totalDistance and the recovery snapshot as they were.
C5_CancelPreserves ==
  [][ (lastOp'.op = "promptForSaveResult" /\ lastOp'.choice \in {"cancel", "closed"})
      => UNCHANGED <<routeData, totalDistance, backup>> ]_vars

\* the prompt was answered with Cancel; entries and snapshot are there
C5_Witness ==
  /\ lastOp.op = "promptForSaveResult"
  /\ lastOp.choice = "cancel"
  /\ ~isTracking
  /\ Len(routeData) >= 1
  /\ backup # <<>>
  /\ backup[1].routeData = routeData

\* the steps that end a save or a confirmed discard
SaveFinished(op) ==
  \/ op.op = "saveSessionSettled" /\ op.choice \in {"anonymous", "skip"}
  \/ op.op = "saveRouteToCloudSettled" /\ op.choice = "saved"

DiscardConfirmed(op) == op.op = "confirmDiscardResult" /\ op.choice = "confirm"

\* C6: once a save has finished or a discard was confirmed, the Store has zero
\* entries, totalDistance 0 and elapsed time 0, and the recovery snapshot no
\* longer exists.
C6_SaveAndDiscardClear ==
  [][ (SaveFinished(lastOp') \/ DiscardConfirmed(lastOp'))
      => ( /\ routeData' = <<>>
           /\ totalDistance' = 0
           /\ elapsedTime' = 0
           /\ backup' = <<>> ) ]_vars

\* C7: choosing Discard on the save prompt does not by itself clear the
\* session, and when the second dialog is declined or dismissed the Store's
\* entries, distance and elapsed time are unchanged.
C7_DiscardNeedsConfirmation ==
  [][ ( \/ lastOp'.op = "promptForSaveResult" /\ lastOp'.choice = "discard"
        \/ lastOp'.op = "confirmDiscardResult" /\ lastOp'.choice = "cancel" )
      => UNCHANGED session ]_vars

\* Discard was chosen and the second dialog declined; the entries are there
C7_Witness ==
  /\ lastOp.op = "confirmDiscardResult"
  /\ lastOp.choice = "cancel"
  /\ Len(routeData) >= 1
  /\ totalDistance > 0

\* the steps in which stop() runs on a tracking controller
Stops(op) ==
  \/ op.op = "stop"
  \/ op.op = "handlePositionError" /\ op.choice = "PERMISSION_DENIED"

\* C8: when stop() runs on a session with zero entries, no save prompt is
\* opened, no save and no discard is started, and the session stays empty.
C8_EmptyStopNoPrompt ==
  [][ (Stops(lastOp') /\ isTracking /\ routeData = <<>>)
      => ( /\ UNCHANGED dialogs
           /\ UNCHANGED <<routeData, totalDistance>> ) ]_vars

\* stop() ended a tracking session without entries after 3 units of time, and
\* no dialog is open
C8_Witness ==
  /\ lastOp.op = "stop"
  /\ lastOp.value = 3
  /\ elapsedTime = 3
  /\ ~isTracking
  /\ routeData = <<>>
  /\ Pending = 0

\* C9: when the local save or the cloud save started by saveRoute() fails, the
\* Store holds the same entries, totalDistance and elapsed time afterwards.
C9_SaveFailureKeepsSession ==
  [][ ( \/ lastOp'.op = "saveSessionSettled" /\ lastOp'.choice = "failed"
        \/ lastOp'.op = "saveRouteToCloudSettled" /\ lastOp'.choice = "failed" )
      => UNCHANGED session ]_vars

\* C10: start() from Idle on a Store with entries and elapsedTime = E > 0 sets
\* the start timestamp to now - E, leaves elapsedTime at E, keeps entries and
\* totalDistance, and starts the timer from E.
C10_ResumeKeepsElapsed ==
  [][ (lastOp'.op = "start" /\ ~isTracking /\ Len(routeData) > 0 /\ elapsedTime > 0)
      => ( /\ startTime' = lastOp'.value - elapsedTime
           /\ elapsedTime' = elapsedTime
           /\ UNCHANGED <<routeData, totalDistance>>
           /\ timerElapsed' = elapsedTime
           /\ timerRunning'
           /\ ~timerPaused'
           /\ isTracking' ) ]_vars

\* start() resumed a session with entries and 3 units of elapsed time
C10_Witness ==
  /\ lastOp.op = "start"
  /\ isTracking
  /\ Len(routeData) >= 1
  /\ elapsedTime = 3
  /\ timerElapsed = 3
  /\ startTime = lastOp.value - 3

\* C11: togglePause() from Recording pauses (subscription closed) and
\* togglePause() from Paused returns the controller to Recording with a
\* subscription open; neither step changes the Store's totalDistance, entries
\* or elapsedTime, so the round trip of the two leaves them unchanged.
C11_PauseRoundTrip ==
  [][ (lastOp'.op = "togglePause" /\ isTracking)
      => ( /\ UNCHANGED session
           /\ isTracking'
           /\ ~isPaused => (isPaused' /\ watchId' = NoWatch)
           /\ isPaused => (~isPaused' /\ watchId' # NoWatch /\ watchId' \in watches') ) ]_vars

\* togglePause() has just resumed a paused recording that holds entries
C11_Witness ==
  /\ lastOp.op = "togglePause"
  /\ Recording
  /\ watchId \in watches
  /\ Len(routeData) >= 1
  /\ totalDistance > 0

\* C12: a permission-denied error while the controller is tracking ends the
\* recording: afterwards the controller is neither tracking nor paused and its
\* position subscription is closed; and while the controller is not tracking,
\* no step other than start() makes it track, appends an entry or adds distance.
C12_PermissionDeniedIsFatal ==
  [][ /\ (lastOp'.op = "handlePositionError" /\ lastOp'.choice = "PERMISSION_DENIED"
          /\ isTracking)
        => ( /\ ~isTracking'
             /\ ~isPaused'
             /\ watchId' = NoWatch
             /\ watchId \notin watches' )
      /\ (~isTracking /\ lastOp'.op # "start")
        => ( /\ ~isTracking'
             /\ Len(routeData') <= Len(routeData)
             /\ totalDistance' <= totalDistance ) ]_vars

\* permission was denied during a recording with entries: the controller
\* stopped, no subscription is open and the save prompt is shown
C12_Witness ==
  /\ lastOp.op = "handlePositionError"
  /\ lastOp.choice = "PERMISSION_DENIED"
  /\ ~isTracking
  /\ ~isPaused
  /\ watchId = NoWatch
  /\ watches = {}
  /\ Len(routeData) >= 1
  /\ prompts > 0

\* C13: a position-unavailable or timeout error leaves the controller as it
\* was (Recording, subscription open), appends no entry and leaves
\* totalDistance, the last coordinates, elapsed time and the timer unchanged.
C13_TransientErrors ==
  [][ (lastOp'.op = "handlePositionError"
       /\ lastOp'.choice \in {"POSITION_UNAVAILABLE", "TIMEOUT"})
      => ( /\ UNCHANGED <<controller, session, timer>>
           /\ getLastCoords' = getLastCoords ) ]_vars

\* a timeout was handled during a recording with entries, which goes on
C13_Witness ==
  /\ lastOp.op = "handlePositionError"
  /\ lastOp.choice = "TIMEOUT"
  /\ Recording
  /\ watchId \in watches
  /\ timerRunning
  /\ Len(routeData) >= 1

IsStartupStep(op) == op.op \in {"handleUnsavedRoute", "loadInitialState"}

\* the storage key holds a snapshot of a session with entries
HoldsValidSnapshot ==
  /\ backup # <<>>
  /\ backup[1].kind = "snapshot"
  /\ backup[1].routeData # <<>>

\* C14: the startup sequence never starts recording by itself: whatever the
\* restore dialogs resolve to, the steps of the startup sequence leave the
\* tracking controller as it was (Idle, no position subscription), do not
\* start the timer and do not set the Store's tracking flags, so that
\* recording begins only through the tracking handlers.
C14_RestoreDoesNotRecord ==
  [][ IsStartupStep(lastOp')
      => UNCHANGED <<controller, timerRunning, timerPaused, stateTracking, statePaused>>
    ]_vars

\* a snapshot was restored into the Store, and the controller is Idle with no
\* subscription and no running timer
C14_Witness ==
  /\ lastOp.op = "handleUnsavedRoute"
  /\ lastOp.choice = "restored"
  /\ ~isTracking
  /\ watchId = NoWatch
  /\ watches = {}
  /\ ~timerRunning
  /\ Len(routeData) >= 1
  /\ elapsedTime = 3

\* C15: across the startup sequence a stored valid snapshot is deleted by the
\* user's choice only when the user declined the restore and then confirmed
\* the discard (a deletion after a failed restore is not the user's choice).
C15_DiscardNeedsConfirmation ==
  [][ (IsStartupStep(lastOp') /\ HoldsValidSnapshot /\ backup' = <<>>)
      => ( /\ lastOp'.op = "handleUnsavedRoute"
           /\ lastOp'.choice \in {"discarded", "restoreFailed"} ) ]_vars

\* the stored value the startup sequence cannot use, or could not restore
Unusable(op) ==
  /\ op.op = "handleUnsavedRoute"
  /\ backup # <<>>
  /\ \/ backup[1].kind \in {"malformed", "scalar"}
     \/ op.choice \in {"restoreFailed", "restoreFailedAfterDecline"}

\* C16: a malformed, invalid or unrestorable snapshot at startup is treated as
\* if no snapshot were present: the session stays as it was (empty) and no
\* error message is shown.
C16_BadSnapshotIsSilent ==
  [][ Unusable(lastOp') => (UNCHANGED session /\ errorShown' = errorShown) ]_vars

\* the age of the stored snapshot when the restore dialog is built; a snapshot
\* without capture time counts as taken now
SnapshotAge ==
  IF backup[1].backupTime = 0 THEN 0 ELSE RestoreTime - backup[1].backupTime

\* the restore dialog is being shown for the stored snapshot
DialogShown(op) ==
  /\ op.op = "handleUnsavedRoute"
  /\ op.choice \notin {"none", "invalid"}

\* the age and the counts of the dialog `shown` for the stored snapshot
AgeAndCounts(shown) ==
  LET entries == backup[1].routeData
      ofType(t) == Cardinality({i \in 1 .. Len(entries) : entries[i].type = t})
  IN  /\ shown.hoursAgo = SnapshotAge \div (60 * 60 * 1000)
      /\ shown.minutesAgo \in 0 .. 59
      /\ 60 * shown.hoursAgo + shown.minutesAgo = SnapshotAge \div (60 * 1000)
      /\ shown.locationPoints = ofType("location")
      /\ shown.photos = ofType("photo")
      /\ shown.notes = ofType("text")
      /\ shown.pointCount = Len(entries)
      /\ shown.locationPoints + shown.photos + shown.notes <= shown.pointCount

\* C19 as stated: for a snapshot of age A >= 0 the dialog reports
\* H = floor(A / 3600000) hours and M = floor((A mod 3600000) / 60000) minutes,
\* 0 <= M < 60 and 60*H + M = floor(A / 60000); the point, photo and note
\* counts are the numbers of entries of type location, photo and text, their
\* sum does not exceed the entry count; and the distance shown is the
\* snapshot's totalDistance.
C19_SummaryExact ==
  [][ DialogShown(lastOp')
      => ( /\ summary'.shown
           /\ AgeAndCounts(summary')
           /\ 10 * summary'.distance = backup[1].totalDistance ) ]_vars

\* C19, amended: the same age and counts; the distance shown is the
\* snapshot's totalDistance rounded to two decimals of a kilometre, so it
\* differs from it by at most 5 metres.
C19_SummaryRounded ==
  [][ DialogShown(lastOp')
      => ( /\ summary'.shown
           /\ AgeAndCounts(summary')
           /\ 10 * summary'.distance - backup[1].totalDistance \in (0 - 4) .. 5 ) ]_vars

\* the dialog was shown for a snapshot taken 2 h 5 min ago that holds two
\* GPS points, a note and an entry of another type, with 1234 m shown as 1.23 km
C19_Witness ==
  /\ lastOp.op = "handleUnsavedRoute"
  /\ summary.shown
  /\ summary.hoursAgo = 2
  /\ summary.minutesAgo = 5
  /\ summary.locationPoints = 2
  /\ summary.notes = 1
  /\ summary.pointCount = 4
  /\ summary.distance = 123

\* the fix the step records passes the filters of the handler
Accepted(op) ==
  /\ IsFix(op)
  /\ Recording
  /\ op.value <= AccuracyLimit
  /\ \/ getLastCoords = NoCoords
     \/ haversineDistance(getLastCoords, op.lat) >= MicroMovement

\* C17: a fix that passes the filters is fully applied whether or not a map
\* hook fails while it is processed: its entry is appended, totalDistance
\* grows by the distance from the last accepted fix, and the controller stays
\* Recording.
C17_RendererFailuresContained ==
  [][ Accepted(lastOp')
      => ( /\ routeData' = Append(routeData, LocationEntry(lastOp'.lat, lastOp'.value))
           /\ totalDistance' = IF getLastCoords = NoCoords
                               THEN totalDistance
                               ELSE totalDistance
                                    + haversineDistance(getLastCoords, lastOp'.lat)
           /\ isTracking'
           /\ ~isPaused' ) ]_vars

\* the entries appended since the save in flight read the route data
LateEntries == {i \in 1 .. Len(routeData) : i > saveTaken}

\* C18: a fix accepted and appended after saveRoute() has read the data it
\* persists and before saveRoute() finishes is not lost: its entry is still
\* in the Store when the save has completed.
C18_LateFixSurvivesSave ==
  [][ (SaveFinished(lastOp') /\ saveTaken > 0)
      => \A i \in LateEntries :
            \E j \in 1 .. Len(routeData') : routeData'[j] = routeData[i] ]_vars

\* C20: totalDistance is never negative, and across every step (start and
\* resume, togglePause, accepted or dropped fixes, position errors, stop and
\* the dialogs) it never decreases, except that it returns to 0 when the
\* Store is cleared as a whole (fresh start, completed save, confirmed
\* discard).
C20_DistanceMonotone ==
  [][ /\ totalDistance >= 0
      /\ totalDistance' >= 0
      /\ \/ totalDistance' >= totalDistance
         \/ (totalDistance' = 0 /\ routeData' = <<>> /\ elapsedTime' = 0) ]_vars

\* a session with distance was stopped after 3 units of time and resumed: the
\* distance is still there
C20_Witness ==
  /\ isTracking
  /\ totalDistance > 0
  /\ totalDistance = SumDist(routeData)
  /\ elapsedTime = 3
  /\ timerElapsed = 3

\* C21: in every state reachable through start, togglePause, stop, position
\* errors, cleanup and the dialogs, a position-stream subscription is open
\* exactly when the controller is tracking and not paused; there is never
\* more than one open subscription, and the open one is the one the
\* controller holds in watchId.
C21_SubscriptionInvariant ==
  /\ Cardinality(watches) <= 1
  /\ (watches # {}) <=> (isTracking /\ ~isPaused)
  /\ watches = IF watchId = NoWatch THEN {} ELSE {watchId}

\* a session with an entry was stopped and resumed, so that a second
\* subscription was opened after the first was closed, and it is the only one
C21_Witness ==
  /\ isTracking
  /\ ~isPaused
  /\ routeData # <<>>
  /\ elapsedTime > 0
  /\ watches = {watchId}
  /\ watchId # NoWatch

\* C22: isPaused implies isTracking in every reachable state, for the
\* controller's flags and for the flags of the Store; a step that begins
\* tracking ends tracking and not paused in the controller and in the Store,
\* a step that ends tracking ends not paused, and isPaused changes only in
\* steps taken while tracking.
C22_PausedImpliesTracking ==
  /\ [](isPaused => isTracking)
  /\ [](statePaused => stateTracking)
  /\ [][ (~isTracking /\ isTracking')
          => (~isPaused' /\ stateTracking' /\ ~statePaused') ]_vars
  /\ [][ (isTracking /\ ~isTracking') => ~isPaused' ]_vars
  /\ [][ isPaused' # isPaused => isTracking ]_vars

\* paused while tracking, in the controller and in the Store
C22_Witness ==
  /\ isTracking
  /\ isPaused
  /\ stateTracking
  /\ statePaused
  /\ routeData # <<>>

\* the controller's operations that write its flags
ControllerOperations == {"start", "togglePause", "stop", "handlePositionError", "cleanup"}

\* C25: after every operation of the controller (start, togglePause, stop,
\* the stop after a permission-denied error, cleanup) the Store's
\* isTracking and isPaused flags equal the controller's isTracking and
\* isPaused fields.
C25_StoreFlagsMatch ==
  [][ lastOp'.op \in ControllerOperations
      => (stateTracking' = isTracking' /\ statePaused' = isPaused') ]_vars

IsPrefix(s, t) == Len(s) <= Len(t) /\ SubSeq(t, 1, Len(s)) = s

\* C23: the entries are append-only and ordered: every step either clears the
\* Store as a whole or leaves the previous entry sequence as a prefix of the
\* new one, across pause, resume, stop and resuming start; and a fix that
\* passes the filters adds exactly one entry, at the end.
C23_AppendOnly ==
  /\ [][ \/ IsPrefix(routeData, routeData')
          \/ (routeData' = <<>> /\ totalDistance' = 0 /\ elapsedTime' = 0) ]_vars
  /\ [][ Accepted(lastOp')
          => ( /\ Len(routeData') = Len(routeData) + 1
               /\ routeData'[Len(routeData')].coords = lastOp'.lat ) ]_vars

\* a second fix was accepted after the session had been stopped and resumed:
\* its entry follows the entry of the first
C23_Witness ==
  /\ IsFix(lastOp)
  /\ isTracking
  /\ elapsedTime > 0
  /\ Len(routeData) = 2
  /\ routeData[1].coords = 0
  /\ routeData[2].coords = 5
  /\ lastOp.lat = 5

\* C26: the first accepted fix of a fresh session (a Store without entries)
\* appends one LocationPoint entry and becomes the last coordinates, while
\* totalDistance stays 0; hence a distance was only ever added when at least
\* two location entries are in the Store.
C26_FirstFix ==
  /\ [][ (IsFix(lastOp') /\ Recording /\ lastOp'.value <= AccuracyLimit /\ routeData = <<>>)
          => ( /\ routeData' = << [type |-> "location", coords |-> lastOp'.lat,
                                   accuracy |-> lastOp'.value] >>
               /\ getLastCoords' = lastOp'.lat
               /\ totalDistance = 0
               /\ totalDistance' = 0 ) ]_vars
  /\ [](totalDistance > 0 => Cardinality(LocationIndexes(routeData)) >= 2)

\* the first fix of a fresh session was accepted at position 5
C26_Witness ==
  /\ IsFix(lastOp)
  /\ Recording
  /\ lastOp.lat = 5
  /\ Len(routeData) = 1
  /\ getLastCoords = 5
  /\ totalDistance = 0
  /\ elapsedTime = 0

\* C24: start() called from Idle on a Store that holds one or more entries
\* (after a stop answered with Cancel, or after a restore) keeps them: the
\* entries and the accumulated distance are still in the Store when start()
\* has returned.
C24_StartKeepsData ==
  [][ (lastOp'.op = "start" /\ ~isTracking /\ routeData # <<>>)
      => (routeData' = routeData /\ totalDistance' = totalDistance) ]_vars

\* the session the controller's handlers may change
Frame == <<controller, store, timer, backup, dialogs>>

\* C27: operations called out of state are no-ops: start() while already
\* tracking, and stop() or togglePause() while not tracking, return false and
\* change neither the controller's flags, the subscription, the timer nor the
\* Store, and open no save prompt.
C27_OutOfStateNoOps ==
  [][ ( \/ (lastOp'.op = "start" /\ isTracking)
        \/ (lastOp'.op \in {"stop", "togglePause"} /\ ~isTracking) )
      => (lastOp'.choice = "false" /\ UNCHANGED Frame) ]_vars

\* start() was called during a recording that holds an entry and returned
\* false
C27_Witness ==
  /\ lastOp.op = "start"
  /\ lastOp.choice = "false"
  /\ isTracking
  /\ routeData # <<>>
  /\ Cardinality(watches) = 1

\* C28: in a browser without geolocation, start() called while not tracking
\* throws and leaves everything as it was: the controller is still not
\* tracking, no subscription is opened, the timer is not started and the
\* Store's entries, distance and elapsed time are not cleared.
C28_NoGeolocation ==
  [][ (lastOp'.op = "start" /\ ~isTracking /\ ~geolocation)
      => (lastOp'.choice = "thrown" /\ ~isTracking' /\ watches' = {} /\ UNCHANGED Frame) ]_vars

\* start() threw on a Store that holds the entries of a restored session
C28_Witness ==
  /\ ~geolocation
  /\ lastOp.op = "start"
  /\ lastOp.choice = "thrown"
  /\ ~isTracking
  /\ watches = {}
  /\ Len(routeData) = 3
  /\ totalDistance = 5

\* C29: a pending save or discard decision never empties an active
\* recording: under every interleaving of button presses, prompt answers and
\* save completions, no step taken while the controller is Recording or
\* Paused empties a Store that holds entries.
C29_DecisionKeepsRecording ==
  [][ (isTracking /\ routeData # <<>>) => routeData' # <<>> ]_vars

\* C30: a user's upvote is counted at most once per report: under every
\* interleaving of upvoteReport calls, overlapping calls of one signed-in
\* user included, the report's upvotes counter equals the number of distinct
\* user ids in upvotedBy.
C30_UpvoteCountedOnce == upvotes = Cardinality(upvotedBy)

====
